---- MODULE Spec2Model ----
(***************************************************************************)
(* The persistent server repository of the Outline client                  *)
(* (PersistentServerRepository), the server adapter (OutlineServer) and    *)
(* the tunnel handles they drive, as a state machine.                      *)
(*                                                                         *)
(* An optional JavaScript value (a property that may be absent, undefined  *)
(* or null) is a sequence of length at most one: <<>> when absent, <<v>>   *)
(* when present.  An optional string is the string itself or Undef.        *)
(***************************************************************************)
EXTENDS Integers, Sequences, FiniteSets, TLC

None == <<>>
Some(x) == <<x>>
IsSome(o) == Len(o) > 0

Undef == "<undefined>"

(***************************************************************************)
(* Bounds of the model.                                                    *)
(***************************************************************************)
\* Server ids are 1..MaxId: uuidv4() can issue at most MaxId ids per run.
MaxId == 2
\* The event queue holds at most MaxQueue undelivered events.
MaxQueue == 2

Ids == 1..MaxId

(***************************************************************************)
(* Configurations.                                                         *)
(***************************************************************************)
Proxy(h, p, pw, m, n) == [host |-> h, port |-> p, password |-> pw, method |-> m, name |-> n]
Source(u) == [url |-> u]
Config(n, p, s) == [name |-> n, proxy |-> p, source |-> s]

SUPPORTED_CIPHERS == {"chacha20-ietf-poly1305", "aes-128-gcm", "aes-192-gcm", "aes-256-gcm"}

OutlineServerIsServerCipherSupported(cipher) ==
  cipher # Undef /\ cipher \in SUPPORTED_CIPHERS

\* A cipher check that lets a proxy without a method through.
isServerCipherSupportedNoMethod(config) ==
  IF ~IsSome(config.proxy) THEN TRUE
  ELSE \/ config.proxy[1].method = Undef
       \/ OutlineServerIsServerCipherSupported(config.proxy[1].method)

isServerCipherSupported(config) ==
  IF ~IsSome(config.proxy) THEN TRUE
  ELSE OutlineServerIsServerCipherSupported(config.proxy[1].method)

\* A comparison of proxies that leaves the password out.
configsMatchNoPassword(left, right) ==
  IF IsSome(left.source) /\ IsSome(right.source)
  THEN left.source[1].url = right.source[1].url
  ELSE IF IsSome(left.proxy) /\ IsSome(right.proxy)
  THEN /\ left.proxy[1].host = right.proxy[1].host
       /\ left.proxy[1].port = right.proxy[1].port
       /\ left.proxy[1].method = right.proxy[1].method
  ELSE FALSE

configsMatch(left, right) ==
  IF IsSome(left.source) /\ IsSome(right.source)
  THEN left.source[1].url = right.source[1].url
  ELSE IF IsSome(left.proxy) /\ IsSome(right.proxy)
  THEN /\ left.proxy[1].host = right.proxy[1].host
       /\ left.proxy[1].port = right.proxy[1].port
       /\ left.proxy[1].method = right.proxy[1].method
       /\ left.proxy[1].password = right.proxy[1].password
  ELSE FALSE

(***************************************************************************)
(* Storage: two string items, SERVERS_STORAGE_KEY_V0 ('servers') and       *)
(* SERVERS_STORAGE_KEY ('servers_v1').  An item is null (no data), the     *)
(* empty string, a string that is not JSON, or the JSON text of an object: *)
(* its entries in key order, each an id and a value (<<>> for JSON null).  *)
(***************************************************************************)
NoData == [kind |-> "null", entries |-> <<>>]
EmptyString == [kind |-> "empty", entries |-> <<>>]
Corrupt == [kind |-> "corrupt", entries |-> <<>>]
Json(entries) == [kind |-> "json", entries |-> entries]
Entry(id, val) == [id |-> id, val |-> val]

\* if (storage.getItem(key)): null and '' are falsy, any other string is truthy.
Truthy(item) == item.kind \in {"corrupt", "json"}

\* JSON.parse(text) throws on text that is not JSON.
ParseThrows(item) == item.kind # "json"

EntryIds(item) == {item.entries[k].id : k \in 1..Len(item.entries)}

\* JSON.stringify of one config: properties whose value is undefined are left
\* out, and reading a property that was left out yields undefined again.
JsonOfConfig(config) ==
  [name |-> IF config.name = Undef THEN Undef ELSE config.name,
   proxy |-> IF IsSome(config.proxy) THEN Some(config.proxy[1]) ELSE None,
   source |-> IF IsSome(config.source) THEN Some(config.source[1]) ELSE None]

\* storeServers(): configById is filled in the iteration order of the Map
\* serverById, then written as one JSON text under SERVERS_STORAGE_KEY.
storeServers(order, srv) ==
  Json([k \in 1..Len(order) |->
          Entry(order[k], Some(JsonOfConfig(srv[order[k]][1].config)))])

(***************************************************************************)
(* The injected factory createServer builds an OutlineServer over a tunnel *)
(* handle.  The Cordova tunnel's constructor throws when the config has    *)
(* neither a proxy nor a source; ElectronOutlineTunnel's does not.         *)
(***************************************************************************)
TunnelImpls == {"cordova", "electron"}

TunnelConstructorThrows(impl, config) ==
  impl = "cordova" /\ ~IsSome(config.proxy) /\ ~IsSome(config.source)

\* A server: the OutlineServer and the tunnel handle it wraps.  config is the
\* handle's config object, which the adapter and the repository share;
\* running is the handle's flag; connecting and stopping are the positions of
\* a connect() and of a disconnect() in flight ("idle" when there is none);
\* adopted is the candidate the connect() in flight adopted (<<>> when none),
\* and raced tells that a disconnect() removed it while start was pending.
NewServer(config, errorMessageId) ==
  [config |-> config, errorMessageId |-> errorMessageId, running |-> FALSE,
   connecting |-> "idle", stopping |-> "idle", adopted |-> None, raced |-> FALSE]

NoServers == [i \in Ids |-> None]

(***************************************************************************)
(* migrateStorageV1(): the storage after the call, and whether it threw.   *)
(* Reading proxy.name of a null entry is outside both try blocks.          *)
(* setItemThrows: the storage refuses the write of the migrated record     *)
(* (setItem throws); the catch around the write logs and goes on.          *)
(***************************************************************************)
\* A migration that keeps the proxy and loses the name.
MigrateEntryNoName(e) ==
  Entry(e.id, Some(Config(Undef, Some(e.val[1]), None)))

MigrateEntry(e) ==
  Entry(e.id, Some(Config(e.val[1].name, Some(e.val[1]), None)))

\* A migration that runs again when the current record has no entries.
migrateStorageV1WhenEmpty(st, setItemThrows) ==
  IF Truthy(st.v1) /\ Len(st.v1.entries) > 0 THEN [threw |-> FALSE, storage |-> st]
  ELSE IF ~Truthy(st.v0) THEN [threw |-> FALSE, storage |-> st]
  ELSE IF ParseThrows(st.v0) THEN [threw |-> FALSE, storage |-> st]
  ELSE IF \E k \in 1..Len(st.v0.entries) : ~IsSome(st.v0.entries[k].val)
  THEN [threw |-> TRUE, storage |-> st]
  ELSE IF setItemThrows THEN [threw |-> FALSE, storage |-> st]
  ELSE [threw |-> FALSE,
        storage |-> [st EXCEPT !.v1 =
           Json([k \in 1..Len(st.v0.entries) |-> MigrateEntry(st.v0.entries[k])])]]

migrateStorageV1(st, setItemThrows) ==
  IF Truthy(st.v1) THEN [threw |-> FALSE, storage |-> st]
  ELSE IF ~Truthy(st.v0) THEN [threw |-> FALSE, storage |-> st]
  ELSE IF ParseThrows(st.v0) THEN [threw |-> FALSE, storage |-> st]
  ELSE IF \E k \in 1..Len(st.v0.entries) : ~IsSome(st.v0.entries[k].val)
  THEN [threw |-> TRUE, storage |-> st]
  ELSE IF setItemThrows THEN [threw |-> FALSE, storage |-> st]
  ELSE [threw |-> FALSE,
        storage |-> [st EXCEPT !.v1 =
           Json([k \in 1..Len(st.v0.entries) |-> MigrateEntry(st.v0.entries[k])])]]

(***************************************************************************)
(* loadServers(): the Map order and the servers built from the current     *)
(* record, and whether it threw.  An entry whose server cannot be built    *)
(* (the factory throws, or config is null so that reading config.proxy     *)
(* throws) is skipped.                                                     *)
(***************************************************************************)
EntryLoads(impl, e) ==
  IsSome(e.val) /\ ~TunnelConstructorThrows(impl, e.val[1])

\* A loop that gives up at the first entry whose server cannot be built.
LoadedIdsUntilFailure(impl, entries) ==
  LET bad == {k \in 1..Len(entries) : ~EntryLoads(impl, entries[k])}
      n == IF bad = {} THEN Len(entries)
           ELSE (CHOOSE k \in bad : \A j \in bad : k <= j) - 1
  IN [k \in 1..n |-> entries[k].id]

LoadedIds(impl, entries) ==
  LET ok == SelectSeq(entries, LAMBDA e : EntryLoads(impl, e))
  IN [k \in 1..Len(ok) |-> ok[k].id]

\* A load that does not tag a proxy without a method.
LoadedServerLenient(config) ==
  NewServer(config,
            IF isServerCipherSupportedNoMethod(config) THEN Undef ELSE "unsupported-cipher")

LoadedServer(config) ==
  NewServer(config, IF isServerCipherSupported(config) THEN Undef ELSE "unsupported-cipher")

loadServers(st, impl) ==
  IF ~Truthy(st.v1)
  THEN [threw |-> FALSE, serverById |-> <<>>, servers |-> NoServers]
  ELSE IF ParseThrows(st.v1)
  THEN [threw |-> TRUE, serverById |-> <<>>, servers |-> NoServers]
  ELSE [threw |-> FALSE,
        serverById |-> LoadedIds(impl, st.v1.entries),
        servers |-> [i \in Ids |->
           IF \E k \in 1..Len(st.v1.entries) :
                st.v1.entries[k].id = i /\ EntryLoads(impl, st.v1.entries[k])
           THEN LET j == CHOOSE j \in 1..Len(st.v1.entries) :
                           st.v1.entries[j].id = i /\ EntryLoads(impl, st.v1.entries[j])
                IN Some(LoadedServer(st.v1.entries[j].val[1]))
           ELSE None]]

(***************************************************************************)
(* Inputs: the configs, names and stored records the operations are tried  *)
(* on.                                                                     *)
(***************************************************************************)
P1 == Proxy("h1", 443, "pw", "aes-128-gcm", Undef)
P2 == Proxy("h2", 443, "pw", "chacha20-ietf-poly1305", "p2")
PRc4 == Proxy("h3", 443, "pw", "rc4-md5", Undef)
PNoMethod == Proxy("h4", 443, "pw", Undef, Undef)
PEmptyMethod == Proxy("h4", 443, "pw", "", Undef)

AddConfigs ==
  { Config(Undef, Some(P1), None),
    Config(Undef, Some(PRc4), None),
    Config(Undef, Some(PNoMethod), None),
    Config(Undef, Some(PEmptyMethod), None),
    Config(Undef, None, Some(Source("u1"))),
    Config(Undef, Some(P1), Some(Source("u2"))),
    Config(Undef, Some(PRc4), Some(Source("u1"))),
    Config("n", None, None) }

UpdateConfigs ==
  { Config(Undef, Some(P2), Some(Source("u1"))),
    Config(Undef, Some(P2), None) }

Names == {"home"}

InitialStorages ==
  { [v0 |-> NoData, v1 |-> NoData],
    [v0 |-> Json(<<Entry(1, Some(P2)), Entry(2, Some(PRc4))>>), v1 |-> EmptyString],
    [v0 |-> Json(<<Entry(1, Some(P2)), Entry(2, None)>>), v1 |-> NoData],
    [v0 |-> Json(<<Entry(1, Some(P1))>>),
     v1 |-> Json(<<Entry(2, Some(Config(Undef, Some(PRc4), None))),
                   Entry(1, Some(Config("n", None, None)))>>)],
    [v0 |-> Corrupt, v1 |-> Corrupt] }

(***************************************************************************)
(* State.                                                                  *)
(***************************************************************************)
VARIABLES
  tunnelImpl,           \* the tunnel class the injected factory builds
  constructed,          \* a PersistentServerRepository exists
  serverById,           \* the keys of the Map serverById, in insertion order
  servers,              \* the server objects, by id: <<>> or <<[config, errorMessageId]>>
  lastForgottenServer,  \* <<>> (null) or <<id>>
  storage,              \* [v0 |-> item 'servers', v1 |-> item 'servers_v1']
  eventQueue,           \* the events enqueued and not yet delivered, oldest first
  issued,               \* the ids that are in use or were: uuidv4() avoids them
  call                  \* the most recent call: its operation, arguments and outcome

vars == <<tunnelImpl, constructed, serverById, servers, lastForgottenServer,
          storage, eventQueue, issued, call>>

\* op, id, cfg: the operation and its arguments (id 0 and cfg <<>> when it has none);
\* threw: "none" or the kind of the error raised, with the server (carriedId) or the
\* cipher name (carriedMethod) the error carries; wrote: the call wrote storage;
\* before: <<>>, or after forget(id), and after the undoForget(id) that directly
\* follows it, the map, the current record and the queue as they were before forget;
\* atEnqueue: <<>>, or the current record as it was when the call enqueued its event;
\* handle: how the operation of the tunnel handle that the call awaited ended;
\* status: the status a notification of the tunnel handle carried, or -1.
Call(op, id, cfg, threw, carriedId, carriedMethod, wrote, before) ==
  [op |-> op, id |-> id, cfg |-> cfg, threw |-> threw, carriedId |-> carriedId,
   carriedMethod |-> carriedMethod, wrote |-> wrote, before |-> before,
   atEnqueue |-> None, handle |-> Undef, status |-> -1]

Returned(op, id, cfg, wrote) == Call(op, id, cfg, "none", 0, Undef, wrote, None)

\* The call c enqueued its event while the current record was `record`.
Enqueued(c, record) == [c EXCEPT !.atEnqueue = Some(record)]

Before(order, srv, st, queue) ==
  [serverById |-> order, servers |-> srv, v1 |-> st.v1, eventQueue |-> queue]

Event(type, id) == [type |-> type, id |-> id]

Tracked(order) == {order[k] : k \in 1..Len(order)}

\* getAll(): the servers in the Map's iteration order.
getAll == serverById

\* A loop that looks at the most recently inserted server only.
serverFromConfigLastOnly(order, srv, config) ==
  IF Len(order) > 0 /\ configsMatch(srv[order[Len(order)]][1].config, config)
  THEN Some(order[Len(order)]) ELSE None

\* serverFromConfig(config): the first server, in Map order, whose config matches.
serverFromConfig(order, srv, config) ==
  LET hits == SelectSeq(order, LAMBDA i : configsMatch(srv[i][1].config, config))
  IN IF Len(hits) > 0 THEN Some(hits[1]) ELSE None

containsServer(config) == IsSome(serverFromConfig(serverById, servers, config))

\* uuidv4(): an id that was never in use.
uuidv4(used) == CHOOSE i \in Ids \ used : \A j \in Ids \ used : i <= j

Remove(order, id) == SelectSeq(order, LAMBDA i : i # id)

\* Map.set(id, _): a new key goes last, an existing key keeps its place.
MapSet(order, id) == IF id \in Tracked(order) THEN order ELSE Append(order, id)

Init ==
  /\ tunnelImpl \in TunnelImpls
  /\ constructed = FALSE
  /\ serverById = <<>>
  /\ servers = NoServers
  /\ lastForgottenServer = None
  /\ storage \in InitialStorages
  /\ eventQueue = <<>>
  /\ issued = EntryIds(storage.v0) \cup EntryIds(storage.v1)
  /\ call = Returned("start", 0, None, FALSE)

(***************************************************************************)
(* new PersistentServerRepository(createServer, eventQueue, storage);       *)
(* setItemThrows: the storage refuses the write migration attempts.        *)
(***************************************************************************)
Construct(setItemThrows) ==
  /\ ~constructed
  /\ LET m == migrateStorageV1(storage, setItemThrows)
         l == loadServers(m.storage, tunnelImpl)
     IN /\ storage' = m.storage
        /\ IF m.threw
           THEN /\ call' = Call("construct", 0, None, "TypeError", 0, Undef,
                                m.storage # storage, None)
                /\ UNCHANGED <<constructed, serverById, servers>>
           ELSE IF l.threw
           THEN /\ call' = Call("construct", 0, None, "Error", 0, Undef,
                                m.storage # storage, None)
                /\ UNCHANGED <<constructed, serverById, servers>>
           ELSE /\ call' = Returned("construct", 0, None, m.storage # storage)
                /\ constructed' = TRUE
                /\ serverById' = l.serverById
                /\ servers' = l.servers
  /\ UNCHANGED <<tunnelImpl, lastForgottenServer, eventQueue, issued>>

\* The process ends: the repository, its servers and the event queue are gone,
\* the storage stays.
Exit ==
  /\ constructed
  /\ constructed' = FALSE
  /\ serverById' = <<>>
  /\ servers' = NoServers
  /\ lastForgottenServer' = None
  /\ eventQueue' = <<>>
  /\ call' = Returned("exit", 0, None, FALSE)
  /\ UNCHANGED <<tunnelImpl, storage, issued>>

(***************************************************************************)
(* add(serverConfig)                                                       *)
(***************************************************************************)
\* serverConfig.proxy?.method || 'unknown'
UnsupportedCipherName(config) ==
  IF ~IsSome(config.proxy) THEN "unknown"
  ELSE IF config.proxy[1].method \in {Undef, ""} THEN "unknown"
  ELSE config.proxy[1].method

Add(cfg) ==
  /\ constructed
  /\ LET alreadyAddedServer == serverFromConfig(serverById, servers, cfg)
     IN IF IsSome(alreadyAddedServer)
        THEN /\ call' = Call("add", 0, Some(cfg), "ServerAlreadyAdded",
                             alreadyAddedServer[1], Undef, FALSE, None)
             /\ UNCHANGED <<serverById, servers, storage, eventQueue, issued>>
        ELSE IF ~isServerCipherSupported(cfg)
        THEN /\ call' = Call("add", 0, Some(cfg), "ShadowsocksUnsupportedCipher",
                             0, UnsupportedCipherName(cfg), FALSE, None)
             /\ UNCHANGED <<serverById, servers, storage, eventQueue, issued>>
        ELSE IF TunnelConstructorThrows(tunnelImpl, cfg)
        THEN /\ call' = Call("add", 0, Some(cfg), "TunnelConstructorError",
                             0, Undef, FALSE, None)
             /\ UNCHANGED <<serverById, servers, storage, eventQueue, issued>>
        ELSE /\ Ids \ issued # {}
             /\ Len(eventQueue) < MaxQueue
             /\ LET id == uuidv4(issued)
                IN /\ serverById' = MapSet(serverById, id)
                   /\ servers' = [servers EXCEPT ![id] = Some(NewServer(cfg, Undef))]
                   /\ issued' = issued \cup {id}
                   /\ storage' = [storage EXCEPT !.v1 = storeServers(serverById', servers')]
                   /\ eventQueue' = Append(eventQueue, Event("ServerAdded", id))
                   /\ call' = Enqueued(Returned("add", id, Some(cfg), TRUE), storage'.v1)
  /\ UNCHANGED <<tunnelImpl, constructed, lastForgottenServer>>

(***************************************************************************)
(* update(serverId, config)                                                *)
(***************************************************************************)
\* config.source?.url
SourceUrl(config) == IF IsSome(config.source) THEN config.source[1].url ELSE Undef

\* An update that takes over the whole incoming config.
UpdateWholeConfig(id, cfg) ==
  /\ constructed
  /\ IF id \notin Tracked(serverById)
     THEN /\ call' = Returned("update", id, Some(cfg), FALSE)
          /\ UNCHANGED <<servers, storage>>
     ELSE IF SourceUrl(cfg) = SourceUrl(servers[id][1].config)
     THEN /\ call' = Returned("update", id, Some(cfg), FALSE)
          /\ UNCHANGED <<servers, storage>>
     ELSE /\ servers' = [servers EXCEPT ![id][1].config = cfg]
          /\ storage' = [storage EXCEPT !.v1 = storeServers(serverById, servers')]
          /\ call' = Returned("update", id, Some(cfg), TRUE)
  /\ UNCHANGED <<tunnelImpl, constructed, serverById, lastForgottenServer,
                 eventQueue, issued>>

Update(id, cfg) ==
  /\ constructed
  /\ IF id \notin Tracked(serverById)
     THEN /\ call' = Returned("update", id, Some(cfg), FALSE)
          /\ UNCHANGED <<servers, storage>>
     ELSE IF SourceUrl(cfg) = SourceUrl(servers[id][1].config)
     THEN /\ call' = Returned("update", id, Some(cfg), FALSE)
          /\ UNCHANGED <<servers, storage>>
     ELSE /\ servers' = [servers EXCEPT ![id][1].config.source = cfg.source]
          /\ storage' = [storage EXCEPT !.v1 = storeServers(serverById, servers')]
          /\ call' = Returned("update", id, Some(cfg), TRUE)
  /\ UNCHANGED <<tunnelImpl, constructed, serverById, lastForgottenServer,
                 eventQueue, issued>>

(***************************************************************************)
(* rename(serverId, newName)                                               *)
(***************************************************************************)
\* OutlineServer's setter of name.
SetName(config, newName) ==
  [config EXCEPT !.name = newName,
                 !.proxy = IF IsSome(@) THEN Some([@[1] EXCEPT !.name = newName]) ELSE @]

\* A rename that enqueues ServerRenamed before it stores.
RenameEnqueueFirst(id, newName) ==
  /\ constructed
  /\ IF id \notin Tracked(serverById)
     THEN /\ call' = Returned("rename", id, None, FALSE)
          /\ UNCHANGED <<servers, storage, eventQueue>>
     ELSE /\ Len(eventQueue) < MaxQueue
          /\ servers' = [servers EXCEPT ![id][1].config = SetName(@, newName)]
          /\ eventQueue' = Append(eventQueue, Event("ServerRenamed", id))
          /\ call' = Enqueued(Returned("rename", id, None, TRUE), storage.v1)
          /\ storage' = [storage EXCEPT !.v1 = storeServers(serverById, servers')]
  /\ UNCHANGED <<tunnelImpl, constructed, serverById, lastForgottenServer, issued>>

Rename(id, newName) ==
  /\ constructed
  /\ IF id \notin Tracked(serverById)
     THEN /\ call' = Returned("rename", id, None, FALSE)
          /\ UNCHANGED <<servers, storage, eventQueue>>
     ELSE /\ Len(eventQueue) < MaxQueue
          /\ servers' = [servers EXCEPT ![id][1].config = SetName(@, newName)]
          /\ storage' = [storage EXCEPT !.v1 = storeServers(serverById, servers')]
          /\ eventQueue' = Append(eventQueue, Event("ServerRenamed", id))
          /\ call' = Enqueued(Returned("rename", id, None, TRUE), storage'.v1)
  /\ UNCHANGED <<tunnelImpl, constructed, serverById, lastForgottenServer, issued>>

(***************************************************************************)
(* forget(serverId)                                                        *)
(***************************************************************************)
\* The server objects still referenced once `id` is the last forgotten server:
\* the previous occupant of the slot is no longer referenced.
KeepReferenced(srv, order, id) ==
  [i \in Ids |-> IF i \in Tracked(order) \cup {id} THEN srv[i] ELSE None]

\* A forget that empties the slot when the id is unknown.
ForgetClearsSlot(id) ==
  /\ constructed
  /\ IF id \notin Tracked(serverById)
     THEN /\ call' = Returned("forget", id, None, FALSE)
          /\ lastForgottenServer' = None
          /\ UNCHANGED <<serverById, servers, storage, eventQueue>>
     ELSE /\ Len(eventQueue) < MaxQueue
          /\ serverById' = Remove(serverById, id)
          /\ lastForgottenServer' = Some(id)
          /\ servers' = KeepReferenced(servers, serverById', id)
          /\ storage' = [storage EXCEPT !.v1 = storeServers(serverById', servers')]
          /\ eventQueue' = Append(eventQueue, Event("ServerForgotten", id))
          /\ call' = Enqueued(Call("forget", id, None, "none", 0, Undef, TRUE,
                                   Some(Before(serverById, servers, storage, eventQueue))),
                              storage'.v1)
  /\ UNCHANGED <<tunnelImpl, constructed, issued>>

\* A forget that leaves an occupied slot as it is.
ForgetKeepsOccupant(id) ==
  /\ constructed
  /\ IF id \notin Tracked(serverById)
     THEN /\ call' = Returned("forget", id, None, FALSE)
          /\ UNCHANGED <<serverById, servers, lastForgottenServer, storage, eventQueue>>
     ELSE /\ Len(eventQueue) < MaxQueue
          /\ serverById' = Remove(serverById, id)
          /\ lastForgottenServer' = IF IsSome(lastForgottenServer)
                                    THEN lastForgottenServer ELSE Some(id)
          /\ servers' = KeepReferenced(servers, serverById', lastForgottenServer'[1])
          /\ storage' = [storage EXCEPT !.v1 = storeServers(serverById', servers')]
          /\ eventQueue' = Append(eventQueue, Event("ServerForgotten", id))
          /\ call' = Enqueued(Call("forget", id, None, "none", 0, Undef, TRUE,
                                   Some(Before(serverById, servers, storage, eventQueue))),
                              storage'.v1)
  /\ UNCHANGED <<tunnelImpl, constructed, issued>>

Forget(id) ==
  /\ constructed
  /\ IF id \notin Tracked(serverById)
     THEN /\ call' = Returned("forget", id, None, FALSE)
          /\ UNCHANGED <<serverById, servers, lastForgottenServer, storage, eventQueue>>
     ELSE /\ Len(eventQueue) < MaxQueue
          /\ serverById' = Remove(serverById, id)
          /\ lastForgottenServer' = Some(id)
          /\ servers' = KeepReferenced(servers, serverById', id)
          /\ storage' = [storage EXCEPT !.v1 = storeServers(serverById', servers')]
          /\ eventQueue' = Append(eventQueue, Event("ServerForgotten", id))
          /\ call' = Enqueued(Call("forget", id, None, "none", 0, Undef, TRUE,
                                   Some(Before(serverById, servers, storage, eventQueue))),
                              storage'.v1)
  /\ UNCHANGED <<tunnelImpl, constructed, issued>>

(***************************************************************************)
(* undoForget(serverId)                                                    *)
(***************************************************************************)
\* An undo that forgets to empty the slot.
UndoForgetKeepsSlot(id) ==
  /\ constructed
  /\ IF ~IsSome(lastForgottenServer) \/ lastForgottenServer[1] # id
     THEN /\ call' = Returned("undoForget", id, None, FALSE)
          /\ UNCHANGED <<serverById, storage, eventQueue>>
     ELSE /\ Len(eventQueue) < MaxQueue
          /\ serverById' = MapSet(serverById, lastForgottenServer[1])
          /\ storage' = [storage EXCEPT !.v1 = storeServers(serverById', servers)]
          /\ eventQueue' = Append(eventQueue, Event("ServerForgetUndone", id))
          /\ call' = Enqueued(Call("undoForget", id, None, "none", 0, Undef, TRUE,
                                   IF call.op = "forget" /\ call.wrote /\ call.id = id
                                   THEN call.before ELSE None),
                              storage'.v1)
  /\ UNCHANGED <<tunnelImpl, constructed, servers, issued, lastForgottenServer>>

\* An undo that restores whatever the slot holds, whichever id is asked for.
UndoForgetAnyId(id) ==
  /\ constructed
  /\ IF ~IsSome(lastForgottenServer)
     THEN /\ call' = Returned("undoForget", id, None, FALSE)
          /\ UNCHANGED <<serverById, lastForgottenServer, storage, eventQueue>>
     ELSE /\ Len(eventQueue) < MaxQueue
          /\ serverById' = MapSet(serverById, lastForgottenServer[1])
          /\ storage' = [storage EXCEPT !.v1 = storeServers(serverById', servers)]
          /\ eventQueue' = Append(eventQueue,
                                 Event("ServerForgetUndone", lastForgottenServer[1]))
          /\ lastForgottenServer' = None
          /\ call' = Enqueued(Call("undoForget", id, None, "none", 0, Undef, TRUE, None),
                              storage'.v1)
  /\ UNCHANGED <<tunnelImpl, constructed, servers, issued>>

UndoForget(id) ==
  /\ constructed
  /\ IF ~IsSome(lastForgottenServer)
     THEN /\ call' = Returned("undoForget", id, None, FALSE)
          /\ UNCHANGED <<serverById, lastForgottenServer, storage, eventQueue>>
     ELSE IF lastForgottenServer[1] # id
     THEN /\ call' = Returned("undoForget", id, None, FALSE)
          /\ UNCHANGED <<serverById, lastForgottenServer, storage, eventQueue>>
     ELSE /\ Len(eventQueue) < MaxQueue
          /\ serverById' = MapSet(serverById, lastForgottenServer[1])
          /\ storage' = [storage EXCEPT !.v1 = storeServers(serverById', servers)]
          /\ eventQueue' = Append(eventQueue, Event("ServerForgetUndone", id))
          /\ lastForgottenServer' = None
          /\ call' = Enqueued(Call("undoForget", id, None, "none", 0, Undef, TRUE,
                                   IF call.op = "forget" /\ call.wrote /\ call.id = id
                                   THEN call.before ELSE None),
                              storage'.v1)
  /\ UNCHANGED <<tunnelImpl, constructed, servers, issued>>

(***************************************************************************)
(* The event queue hands its oldest event to the subscribers.              *)
(***************************************************************************)
Deliver ==
  /\ eventQueue # <<>>
  /\ eventQueue' = Tail(eventQueue)
  /\ call' = Returned("deliver", 0, None, FALSE)
  /\ UNCHANGED <<tunnelImpl, constructed, serverById, servers, lastForgottenServer,
                 storage, issued>>

Next ==
  \/ Construct(FALSE)
  \/ Exit
  \/ \E cfg \in AddConfigs : Add(cfg)
  \/ \E id \in Ids, cfg \in UpdateConfigs : Update(id, cfg)
  \/ \E id \in Ids, newName \in Names : Rename(id, newName)
  \/ \E id \in Ids : Forget(id)
  \/ \E id \in Ids : UndoForget(id)
  \/ Deliver

Spec == Init /\ [][Next]_vars

(***************************************************************************)
(* Properties.  A step is recognised by the call it leaves in `call`; a    *)
(* call that changes nothing and repeats the previous call is a stuttering *)
(* step.                                                                   *)
(***************************************************************************)
RepositoryState == <<serverById, servers, lastForgottenServer, storage, eventQueue>>

Matching(cfg) == {i \in Tracked(serverById) : configsMatch(servers[i][1].config, cfg)}

AddStep(cfg) == call'.op = "add" /\ call'.cfg = Some(cfg)

\* C1: add(config), when the config of some tracked server matches config,
\* fails with ServerAlreadyAdded carrying a tracked server whose config
\* matches, and leaves the map, the last-forgotten slot, the storage and the
\* event queue as they were.
C1_AddDuplicateFails ==
  [][\A cfg \in AddConfigs :
       (AddStep(cfg) /\ Matching(cfg) # {})
       => /\ call'.threw = "ServerAlreadyAdded"
          /\ call'.carriedId \in Matching(cfg)
          /\ UNCHANGED RepositoryState]_vars

C1_Witness ==
  /\ call.op = "add"
  /\ call.threw = "ServerAlreadyAdded"
  /\ Len(serverById) = 2
  /\ call.carriedId \in Tracked(serverById)
  /\ lastForgottenServer = None

\* The four AEAD ciphers of the allow-list.
AllowList == {"chacha20-ietf-poly1305", "aes-128-gcm", "aes-192-gcm", "aes-256-gcm"}

HasUnsupportedProxy(cfg) == IsSome(cfg.proxy) /\ cfg.proxy[1].method \notin AllowList

\* The cipher name the error carries: 'unknown' for a method that is absent or
\* empty.
CipherName(cfg) ==
  IF cfg.proxy[1].method \in {Undef, ""} THEN "unknown" ELSE cfg.proxy[1].method

\* C2 as stated: add(config) for a config with a proxy whose method is not
\* allow-listed fails with ShadowsocksUnsupportedCipher carrying the method
\* name, tracks no new server, writes no storage and enqueues no event.
C2_UnsupportedCipherAlwaysRejected ==
  [][\A cfg \in AddConfigs :
       (AddStep(cfg) /\ HasUnsupportedProxy(cfg))
       => /\ call'.threw = "ShadowsocksUnsupportedCipher"
          /\ call'.carriedMethod = CipherName(cfg)
          /\ UNCHANGED RepositoryState]_vars

\* C2 as amended: such an add fails with ServerAlreadyAdded when the config of
\* a tracked server matches config, and otherwise with
\* ShadowsocksUnsupportedCipher carrying the method name ('unknown' when the
\* method is absent or empty); either way no server is tracked, no storage is
\* written and no event is enqueued.
C2_UnsupportedCipherRejected ==
  [][\A cfg \in AddConfigs :
       (AddStep(cfg) /\ HasUnsupportedProxy(cfg))
       => /\ IF Matching(cfg) # {}
             THEN call'.threw = "ServerAlreadyAdded"
             ELSE /\ call'.threw = "ShadowsocksUnsupportedCipher"
                  /\ call'.carriedMethod = CipherName(cfg)
          /\ ~call'.wrote
          /\ UNCHANGED RepositoryState]_vars

C2_Witness ==
  /\ call.op = "add"
  /\ call.threw = "ShadowsocksUnsupportedCipher"
  /\ call.carriedMethod = "rc4-md5"
  /\ call.cfg[1].proxy[1].method = "rc4-md5"
  /\ Len(serverById) > 0

\* C3: whenever add(config) returns without error, the map is the previous
\* map plus exactly one server under an id that was not tracked,
\* containsServer(config) is true, and the queue is the previous queue plus
\* one ServerAdded event for that server.
C3_AddSucceeds ==
  [][\A cfg \in AddConfigs :
       (AddStep(cfg) /\ call'.threw = "none")
       => /\ call'.id \notin Tracked(serverById)
          /\ Tracked(serverById') = Tracked(serverById) \cup {call'.id}
          /\ Len(serverById') = Len(serverById) + 1
          /\ \A i \in Tracked(serverById) : servers'[i] = servers[i]
          /\ servers'[call'.id][1].config = cfg
          /\ \E i \in Tracked(serverById') : configsMatch(servers'[i][1].config, cfg)
          /\ eventQueue' = Append(eventQueue, Event("ServerAdded", call'.id))]_vars

\* What holds of every add that returns: all of C3 but containsServer(config),
\* which is true exactly when config has a source or a proxy.
C3_AddSucceedsButContains ==
  [][\A cfg \in AddConfigs :
       (AddStep(cfg) /\ call'.threw = "none")
       => /\ call'.id \notin Tracked(serverById)
          /\ Tracked(serverById') = Tracked(serverById) \cup {call'.id}
          /\ Len(serverById') = Len(serverById) + 1
          /\ \A i \in Tracked(serverById) : servers'[i] = servers[i]
          /\ servers'[call'.id][1].config = cfg
          /\ (\E i \in Tracked(serverById') : configsMatch(servers'[i][1].config, cfg))
               <=> (IsSome(cfg.source) \/ IsSome(cfg.proxy))
          /\ eventQueue' = Append(eventQueue, Event("ServerAdded", call'.id))]_vars

SameBindings(order1, srv1, order2, srv2) ==
  /\ Tracked(order1) = Tracked(order2)
  /\ \A i \in Tracked(order1) : srv1[i] = srv2[i]

UndoneAfterForget ==
  call.op = "undoForget" /\ call.wrote /\ IsSome(call.before)

SecondUndoIsNoOp ==
  [][(call.op = "undoForget" /\ call.wrote /\ call'.op = "undoForget"
        /\ call'.id = call.id)
     => (call'.threw = "none" /\ ~call'.wrote /\ UNCHANGED RepositoryState)]_vars

\* C4 as stated: after forget(id) directly followed by undoForget(id), the map
\* binds the same ids to the same servers as before forget, the current record
\* is the one before forget, and the queue has gained ServerForgotten then
\* ServerForgetUndone; a second undoForget(id) changes nothing and does not throw.
C4_UndoRestoresRecord ==
  /\ [](UndoneAfterForget =>
          LET b == call.before[1]
          IN /\ SameBindings(serverById, servers, b.serverById, b.servers)
             /\ storage.v1 = b.v1
             /\ eventQueue = b.eventQueue \o <<Event("ServerForgotten", call.id),
                                               Event("ServerForgetUndone", call.id)>>)
  /\ SecondUndoIsNoOp

\* C4 as amended: the current record after the undo is the serialization of
\* the restored map, whose entries are those of the map before forget with the
\* entry of id moved to the end.
C4_UndoRestoresMap ==
  /\ [](UndoneAfterForget =>
          LET b == call.before[1]
          IN /\ SameBindings(serverById, servers, b.serverById, b.servers)
             /\ serverById = Append(Remove(b.serverById, call.id), call.id)
             /\ storage.v1 = storeServers(serverById, b.servers)
             /\ lastForgottenServer = None
             /\ eventQueue = b.eventQueue \o <<Event("ServerForgotten", call.id),
                                               Event("ServerForgetUndone", call.id)>>)
  /\ SecondUndoIsNoOp

C4_Witness ==
  /\ UndoneAfterForget
  /\ Len(serverById) = 2
  /\ serverById # call.before[1].serverById
  /\ storage.v1 # call.before[1].v1

\* C5: undoForget(idX) while the slot holds a server with another id idY
\* changes neither the map, the slot, the storage nor the queue and does not
\* throw; forget puts the server it removed in the slot, replacing the
\* occupant, and an undoForget that restores anything restores the occupant
\* and is the call for its id.
C5_StaleUndoIsNoOp ==
  [][/\ (call'.op = "undoForget" /\ IsSome(lastForgottenServer)
           /\ lastForgottenServer[1] # call'.id)
        => (call'.threw = "none" /\ ~call'.wrote /\ UNCHANGED RepositoryState)
     /\ (call'.op = "forget" /\ call'.wrote)
        => lastForgottenServer' = Some(call'.id)
     /\ (call'.op = "undoForget" /\ call'.wrote)
        => /\ lastForgottenServer = Some(call'.id)
           /\ Tracked(serverById') = Tracked(serverById) \cup {call'.id}
           /\ servers' = servers]_vars

C5_Witness ==
  /\ call.op = "undoForget"
  /\ ~call.wrote
  /\ IsSome(lastForgottenServer)
  /\ lastForgottenServer[1] # call.id
  /\ Len(serverById) = 0
  /\ issued = Ids

(***************************************************************************)
(* configsMatch on its own: every pair of configs built from two values    *)
(* of each compared field, with source and proxy present or absent.        *)
(***************************************************************************)
MatchProxies ==
  {Proxy(h, p, pw, m, Undef) :
     h \in {"h1", "h2"}, p \in {443, 8443}, pw \in {"pw", "pw2"},
     m \in {"aes-128-gcm", Undef}}

MatchConfigs ==
  {Config(Undef, p, s) :
     p \in {None} \cup {Some(x) : x \in MatchProxies},
     s \in {None, Some(Source("u1")), Some(Source("u2"))}}

MatchCall(left, right) ==
  [op |-> "configsMatch", left |-> left, right |-> right,
   result |-> configsMatch(left, right), reversed |-> configsMatch(right, left)]

InitMatch ==
  /\ tunnelImpl = "electron"
  /\ constructed = FALSE
  /\ serverById = <<>>
  /\ servers = NoServers
  /\ lastForgottenServer = None
  /\ storage = [v0 |-> NoData, v1 |-> NoData]
  /\ eventQueue = <<>>
  /\ issued = {}
  /\ \E left \in MatchConfigs, right \in MatchConfigs :
       call = [op |-> "arguments", left |-> left, right |-> right,
               result |-> FALSE, reversed |-> FALSE]

Match ==
  /\ call.op = "arguments"
  /\ call' = MatchCall(call.left, call.right)
  /\ UNCHANGED <<tunnelImpl, constructed, serverById, servers, lastForgottenServer,
                 storage, eventQueue, issued>>

NextMatch == Match

SpecMatch == InitMatch /\ [][NextMatch]_vars

BothSource(a, b) == IsSome(a.source) /\ IsSome(b.source)
BothProxy(a, b) == IsSome(a.proxy) /\ IsSome(b.proxy)
SameUrl(a, b) == a.source[1].url = b.source[1].url
SameProxy(a, b) ==
  /\ a.proxy[1].host = b.proxy[1].host
  /\ a.proxy[1].port = b.proxy[1].port
  /\ a.proxy[1].method = b.proxy[1].method
  /\ a.proxy[1].password = b.proxy[1].password

\* C6 as stated: configsMatch(A,B) = configsMatch(B,A), and configsMatch(A,B)
\* is true iff both have a source with equal URLs or both have a proxy with
\* equal host, port, method and password.
C6_MatchIffSourceOrProxy ==
  call.op = "configsMatch" =>
    /\ call.result = call.reversed
    /\ call.result <=> \/ BothSource(call.left, call.right) /\ SameUrl(call.left, call.right)
                       \/ BothProxy(call.left, call.right) /\ SameProxy(call.left, call.right)

\* C6 as amended: configsMatch is symmetric, and is true iff both have a source
\* with equal URLs, or not both have a source and both have a proxy with equal
\* host, port, method and password: when both have a source the proxies are
\* not compared.
C6_MatchSourceFirst ==
  call.op = "configsMatch" =>
    /\ call.result = call.reversed
    /\ call.result <=> IF BothSource(call.left, call.right)
                       THEN SameUrl(call.left, call.right)
                       ELSE /\ BothProxy(call.left, call.right)
                            /\ SameProxy(call.left, call.right)

C6_Witness ==
  /\ call.op = "configsMatch"
  /\ BothSource(call.left, call.right) /\ ~SameUrl(call.left, call.right)
  /\ BothProxy(call.left, call.right) /\ SameProxy(call.left, call.right)
  /\ ~call.result

EventOf(op) ==
  CASE op = "add" -> "ServerAdded"
    [] op = "rename" -> "ServerRenamed"
    [] op = "forget" -> "ServerForgotten"
    [] op = "undoForget" -> "ServerForgetUndone"

\* C7: when add, rename, forget or undoForget enqueues its event, the call has
\* stored, and the current record at that moment is the serialization of the
\* map as it is after the mutation (and is the record the call leaves); each
\* of them enqueues exactly its own event, and only in a call that stored.
C7_StoredWhenEnqueued ==
  [][(call'.op \in {"add", "rename", "forget", "undoForget"}
        /\ eventQueue' # eventQueue)
     => /\ call'.wrote
        /\ call'.atEnqueue = Some(storeServers(serverById', servers'))
        /\ storage'.v1 = storeServers(serverById', servers')
        /\ eventQueue' = Append(eventQueue, Event(EventOf(call'.op), call'.id))]_vars

C7_Witness ==
  /\ call.op = "rename"
  /\ call.wrote
  /\ Len(eventQueue) = 2
  /\ eventQueue[2] = Event("ServerRenamed", call.id)
  /\ servers[call.id][1].config.name = "home"
  /\ call.atEnqueue = Some(storage.v1)

\* C8: update, rename and forget with an id that is not tracked, and
\* undoForget while the slot is empty, do not throw and leave the map, the
\* slot, the storage and the queue as they were.
C8_UnknownIdIsNoOp ==
  [][(\/ call'.op \in {"update", "rename", "forget"}
           /\ call'.id \notin Tracked(serverById)
      \/ call'.op = "undoForget" /\ ~IsSome(lastForgottenServer))
     => /\ call'.threw = "none"
        /\ ~call'.wrote
        /\ UNCHANGED RepositoryState]_vars

C8_Witness ==
  /\ call.op = "forget"
  /\ ~call.wrote
  /\ call.id \notin Tracked(serverById)
  /\ Len(serverById) = 1
  /\ IsSome(lastForgottenServer)

\* C9: update(id, config) on a tracked id writes storage exactly when
\* config.source.url differs from the server's source URL; it then replaces
\* the source of that server's config and nothing else (proxy, name and the
\* other servers stay), stores the map and enqueues no event; a second update
\* with the same id and source URL right after it does not write.
C9_UpdateOnlySource ==
  [][/\ \A cfg \in UpdateConfigs :
          (call'.op = "update" /\ call'.cfg = Some(cfg)
             /\ call'.id \in Tracked(serverById))
          => LET old == servers[call'.id][1]
                 new == servers'[call'.id][1]
                 differs == SourceUrl(cfg) # SourceUrl(old.config)
             IN /\ call'.threw = "none"
                /\ call'.wrote <=> differs
                /\ new.config.source = IF differs THEN cfg.source ELSE old.config.source
                /\ new.config.proxy = old.config.proxy
                /\ new.config.name = old.config.name
                /\ new.errorMessageId = old.errorMessageId
                /\ \A i \in Ids \ {call'.id} : servers'[i] = servers[i]
                /\ storage' = IF differs
                              THEN [storage EXCEPT !.v1 = storeServers(serverById, servers')]
                              ELSE storage
                /\ UNCHANGED <<serverById, lastForgottenServer, eventQueue>>
     /\ (call.op = "update" /\ call'.op = "update" /\ call'.id = call.id
           /\ call.id \in Tracked(serverById)
           /\ SourceUrl(call'.cfg[1]) = SourceUrl(call.cfg[1]))
        => ~call'.wrote]_vars

C9_Witness ==
  /\ call.op = "update"
  /\ call.wrote
  /\ servers[call.id][1].config.source = call.cfg[1].source
  /\ IsSome(servers[call.id][1].config.proxy)
  /\ servers[call.id][1].config.proxy # call.cfg[1].proxy
  /\ servers[call.id][1].config.name = "home"
  /\ eventQueue = <<>>

\* C10: constructing the repository while the current key holds no data and
\* the legacy key holds a parseable record of proxy configs writes under the
\* current key a record with the legacy ids, each proxy config P mapped to
\* {proxy: P, name: P.name}, and leaves the legacy key as it was.
C10_MigrationWritesCurrentRecord ==
  [][(/\ call'.op = "construct"
      /\ storage.v1.kind \in {"null", "empty"}
      /\ storage.v0.kind = "json"
      /\ \A k \in 1..Len(storage.v0.entries) : IsSome(storage.v0.entries[k].val))
     => /\ storage'.v0 = storage.v0
        /\ storage'.v1.kind = "json"
        /\ Len(storage'.v1.entries) = Len(storage.v0.entries)
        /\ \A k \in 1..Len(storage.v0.entries) :
             LET P == storage.v0.entries[k].val[1]
             IN /\ storage'.v1.entries[k].id = storage.v0.entries[k].id
                /\ storage'.v1.entries[k].val =
                     Some([name |-> P.name, proxy |-> Some(P), source |-> None])]_vars

C10_Witness ==
  /\ call.op = "construct"
  /\ call.wrote
  /\ constructed
  /\ storage.v0.kind = "json"
  /\ Len(storage.v1.entries) = 2
  /\ storage.v1.entries[1].val[1].name = "p2"
  /\ storage.v1.entries[1].val[1].proxy = storage.v0.entries[1].val

(***************************************************************************)
(* Process restarts over stored records: the records a process can find    *)
(* under the two keys, a legacy key that changes between and during runs,  *)
(* a storage that may refuse the write of the migration, and repository    *)
(* mutations in between.                                                   *)
(***************************************************************************)
StoredLegacy ==
  { NoData, EmptyString, Corrupt, Json(<<>>),
    Json(<<Entry(1, Some(P2)), Entry(2, Some(PRc4))>>),
    Json(<<Entry(1, Some(P1)), Entry(2, None)>>) }

StoredCurrent ==
  { NoData, EmptyString, Corrupt, Json(<<>>),
    Json(<<Entry(1, None), Entry(2, Some(Config(Undef, Some(P1), None)))>>),
    Json(<<Entry(2, Some(Config(Undef, Some(PRc4), None))),
           Entry(1, Some(Config("n", None, None)))>>),
    Json(<<Entry(1, Some(Config(Undef, Some(PNoMethod), None))),
           Entry(2, Some(Config(Undef, None, Some(Source("u1")))))>>) }

ChangedLegacy ==
  { NoData, Json(<<Entry(1, Some(P2))>>), Json(<<Entry(1, Some(P1)), Entry(2, None)>>) }

RestartAdds == { Config(Undef, Some(P1), None) }

InitRestart ==
  /\ tunnelImpl \in TunnelImpls
  /\ constructed = FALSE
  /\ serverById = <<>>
  /\ servers = NoServers
  /\ lastForgottenServer = None
  /\ storage \in [v0 : StoredLegacy, v1 : StoredCurrent]
  /\ eventQueue = <<>>
  /\ issued = EntryIds(storage.v0) \cup EntryIds(storage.v1)
  /\ call = Returned("start", 0, None, FALSE)

\* Something other than the repository rewrites or removes the legacy item.
SetLegacy(item) ==
  /\ item # storage.v0
  /\ storage' = [storage EXCEPT !.v0 = item]
  /\ issued' = issued \cup EntryIds(item)
  /\ call' = Returned("setLegacy", 0, None, FALSE)
  /\ UNCHANGED <<tunnelImpl, constructed, serverById, servers, lastForgottenServer,
                 eventQueue>>

NextRestart ==
  \/ \E setItemThrows \in BOOLEAN : Construct(setItemThrows)
  \/ Exit
  \/ \E item \in ChangedLegacy : SetLegacy(item)
  \/ \E cfg \in RestartAdds : Add(cfg)
  \/ \E id \in Ids, cfg \in UpdateConfigs : Update(id, cfg)
  \/ \E id \in Ids, newName \in Names : Rename(id, newName)
  \/ \E id \in Ids : Forget(id)
  \/ \E id \in Ids : UndoForget(id)
  \/ Deliver

SpecRestart == InitRestart /\ [][NextRestart]_vars

CurrentKeyPresent == storage.v1.kind # "null"
CurrentKeyHoldsData == storage.v1.kind \in {"corrupt", "json"}

ConstructionLeavesStorage ==
  call'.op = "construct" => (storage' = storage /\ ~call'.wrote)

C12_MigrationNeverThrows ==
  [][(call'.op = "construct" /\ call'.threw # "none")
     => (call'.threw = "Error" /\ storage'.v1.kind = "corrupt")]_vars

\* What holds instead: construction raises the TypeError of migration exactly
\* when migration gets to a parseable legacy record with a null entry; a
\* refused write is swallowed.
C12_MigrationThrowsOnNullEntry ==
  [][call'.op = "construct"
     => (call'.threw = "TypeError"
           <=> /\ storage.v1.kind \in {"null", "empty"}
               /\ storage.v0.kind = "json"
               /\ \E k \in 1..Len(storage.v0.entries) :
                     storage.v0.entries[k].val = None)]_vars

\* The load of one stored entry completes: the config is not null, so that
\* the cipher check can read it, and the tunnel constructor accepts it.
LoadCompletes(impl, val) ==
  /\ val # None
  /\ impl = "cordova" => (IsSome(val[1].proxy) \/ IsSome(val[1].source))

LoadableEntries(impl, item) ==
  SelectSeq(item.entries, LAMBDA e : LoadCompletes(impl, e.val))

C14_UnsupportedCipherTagged ==
  [][(call'.op = "construct" /\ call'.threw = "none" /\ storage'.v1.kind = "json")
     => \A k \in 1..Len(storage'.v1.entries) :
          LET e == storage'.v1.entries[k]
          IN /\ (e.val # None /\ HasUnsupportedProxy(e.val[1]))
                  => /\ e.id \in Tracked(serverById')
                     /\ servers'[e.id][1].errorMessageId = "unsupported-cipher"
             /\ (e.id \in Tracked(serverById') /\ ~HasUnsupportedProxy(e.val[1]))
                  => servers'[e.id][1].errorMessageId = Undef]_vars

C14_Witness ==
  /\ call.op = "construct"
  /\ constructed
  /\ Len(serverById) = 2
  /\ \E i, j \in Tracked(serverById) :
       /\ servers[i][1].errorMessageId = "unsupported-cipher"
       /\ servers[i][1].config.proxy[1].method = Undef
       /\ servers[j][1].errorMessageId = Undef
       /\ servers[j][1].config.proxy = None

(***************************************************************************)
(* The server adapter (OutlineServer) over its tunnel handle.  connect()   *)
(* and disconnect() suspend while the handle's operation is pending, and   *)
(* other calls run in between; the handle pushes status notifications.     *)
(***************************************************************************)
AdapterImpls == {"cordova", "electron", "fake"}

\* The one candidate FakeOutlineTunnel.fetchProxyConfig returns; also the
\* proxy a main process answers with.
PDynamic == Proxy("127.0.0.1", 1080, "test", "chacha20-ietf-poly1305", "Dynamic Server")

\* const enum TunnelStatus, and a value outside it.
CONNECTED == 0
DISCONNECTED == 1
RECONNECTING == 2
UnknownStatus == 3

\* The statuses a handle pushes: ElectronOutlineTunnel the three it names,
\* the native plugin any number, FakeOutlineTunnel none.
Statuses(impl) ==
  IF impl = "electron" THEN {CONNECTED, DISCONNECTED, RECONNECTING}
  ELSE IF impl = "cordova" THEN {CONNECTED, DISCONNECTED, RECONNECTING, UnknownStatus}
  ELSE {}

\* config.name?.toLowerCase().includes(..), on the names of the model.
playUnreachable(config) == config.name \in {"unreachable", "Unreachable"}
playBroken(config) == config.name \in {"broken", "Broken"}

StartPositions ==
  {"start-pending", "start-ok", "start-illegal", "start-unreachable", "start-broken"}

\* tunnel.start() is called: FakeOutlineTunnel.start runs to its end at once,
\* ElectronOutlineTunnel.start returns at once when running and otherwise
\* waits for the main process, the native plugin always has to answer.
StartCalled(impl, s) ==
  IF impl = "fake"
  THEN IF s.running THEN [s EXCEPT !.connecting = "start-ok"]
       ELSE IF ~IsSome(s.config.proxy) THEN [s EXCEPT !.connecting = "start-illegal"]
       ELSE IF playUnreachable(s.config) THEN [s EXCEPT !.connecting = "start-unreachable"]
       ELSE IF playBroken(s.config) THEN [s EXCEPT !.connecting = "start-broken"]
       ELSE [s EXCEPT !.running = TRUE, !.connecting = "start-ok"]
  ELSE IF impl = "electron" /\ s.running THEN [s EXCEPT !.connecting = "start-ok"]
  ELSE [s EXCEPT !.connecting = "start-pending"]

\* How the pending start() can end.
StartOutcomes(impl, s) ==
  CASE s.connecting = "start-ok" -> {"resolved"}
    [] s.connecting = "start-illegal" -> {"IllegalServerConfiguration"}
    [] s.connecting = "start-unreachable" -> {"SERVER_UNREACHABLE"}
    [] s.connecting = "start-broken" -> {"SHADOWSOCKS_START_FAILURE"}
    [] s.connecting = "start-pending" ->
         IF impl = "electron" THEN {"resolved", "code", "error"} ELSE {"resolved", "code"}

\* How the pending fetchProxyConfig() can end: FakeOutlineTunnel returns its
\* array; ElectronOutlineTunnel and the native plugin store the first proxy
\* of the answer in config.proxy themselves (none when the answer is empty)
\* and return undefined, or throw.
FetchOutcomes(impl) ==
  IF impl = "fake" THEN {"candidates"} ELSE {"stored", "stored-none", "code", "error"}

\* The error connect() raises for an outcome of the handle: an error with an
\* errorCode is translated by errors.fromErrorCode, any other is rethrown;
\* proxies[0] of undefined is a TypeError.
ConnectThrows(outcome) ==
  CASE outcome \in {"code", "SERVER_UNREACHABLE", "SHADOWSOCKS_START_FAILURE"} -> "fromErrorCode"
    [] outcome \in {"stored", "stored-none"} -> "TypeError"
    [] outcome = "error" -> "Error"
    [] outcome = "IllegalServerConfiguration" -> "IllegalServerConfiguration"

WithHandle(c, outcome) == [c EXCEPT !.handle = outcome]
WithStatus(c, status) == [c EXCEPT !.status = status]

Awaiting(id) == Returned("await", id, None, FALSE)

\* The catch block of connect(): the proxy goes when the config has a source.
ConnectFailed(s) ==
  [s EXCEPT !.connecting = "idle",
            !.config.proxy = IF IsSome(s.config.source) THEN None ELSE @]

\* connect() up to its first await: fetchProxyConfig() when the config has a
\* source, start() otherwise.
ConnectBegin(id) ==
  /\ constructed
  /\ IsSome(servers[id])
  /\ servers[id][1].connecting = "idle"
  /\ LET s == [servers[id][1] EXCEPT !.adopted = None, !.raced = FALSE]
     IN servers' = [servers EXCEPT ![id][1] =
                      IF IsSome(s.config.source)
                      THEN [s EXCEPT !.connecting = "fetching"]
                      ELSE StartCalled(tunnelImpl, s)]
  /\ call' = Awaiting(id)
  /\ UNCHANGED <<tunnelImpl, constructed, serverById, lastForgottenServer, storage,
                 eventQueue, issued>>

\* fetchProxyConfig() ends: connect() adopts proxies[0] and calls start(), or
\* fails.
FetchReturns(id, outcome) ==
  /\ constructed
  /\ IsSome(servers[id])
  /\ servers[id][1].connecting = "fetching"
  /\ outcome \in FetchOutcomes(tunnelImpl)
  /\ LET s == servers[id][1]
     IN IF outcome = "candidates"
        THEN /\ servers' = [servers EXCEPT ![id][1] =
                              StartCalled(tunnelImpl,
                                          [s EXCEPT !.config.proxy = Some(PDynamic),
                                                    !.adopted = Some(PDynamic)])]
             /\ call' = Awaiting(id)
        ELSE LET stored == [s EXCEPT !.config.proxy =
                              IF outcome = "stored" THEN Some(PDynamic)
                              ELSE IF outcome = "stored-none" THEN None
                              ELSE @]
             IN /\ servers' = [servers EXCEPT ![id][1] = ConnectFailed(stored)]
                /\ call' = WithHandle(Call("connect", id, None, ConnectThrows(outcome),
                                           0, Undef, FALSE, None), outcome)
  /\ UNCHANGED <<tunnelImpl, constructed, serverById, lastForgottenServer, storage,
                 eventQueue, issued>>

\* start() ends: connect() returns, or fails.
StartReturns(id, outcome) ==
  /\ constructed
  /\ IsSome(servers[id])
  /\ servers[id][1].connecting \in StartPositions
  /\ outcome \in StartOutcomes(tunnelImpl, servers[id][1])
  /\ LET s == servers[id][1]
     IN IF outcome = "resolved"
        THEN /\ servers' = [servers EXCEPT ![id][1] =
                              [s EXCEPT !.connecting = "idle",
                                        !.running = IF tunnelImpl = "electron"
                                                       /\ s.connecting = "start-pending"
                                                    THEN TRUE ELSE @]]
             /\ call' = WithHandle(Returned("connect", id, None, FALSE), outcome)
        ELSE /\ servers' = [servers EXCEPT ![id][1] = ConnectFailed(s)]
             /\ call' = WithHandle(Call("connect", id, None, ConnectThrows(outcome),
                                        0, Undef, FALSE, None), outcome)
  /\ UNCHANGED <<tunnelImpl, constructed, serverById, lastForgottenServer, storage,
                 eventQueue, issued>>

\* tunnel.stop() is called: FakeOutlineTunnel.stop runs to its end at once,
\* ElectronOutlineTunnel.stop returns at once when not running.
StopCalled(impl, s) ==
  IF impl = "fake" THEN [s EXCEPT !.running = FALSE, !.stopping = "done"]
  ELSE IF impl = "electron" /\ ~s.running THEN [s EXCEPT !.stopping = "done"]
  ELSE [s EXCEPT !.stopping = "pending"]

\* How the pending stop() can end: ElectronOutlineTunnel.stop swallows the
\* error of the main process, the native plugin's stop can reject.
StopOutcomes(impl, s) ==
  IF s.stopping = "done" THEN {"resolved"}
  ELSE IF impl = "electron" THEN {"resolved", "swallowed"}
  ELSE {"resolved", "rejected"}

\* disconnect() up to its await.
DisconnectBegin(id) ==
  /\ constructed
  /\ IsSome(servers[id])
  /\ servers[id][1].stopping = "idle"
  /\ servers' = [servers EXCEPT ![id][1] = StopCalled(tunnelImpl, @)]
  /\ call' = Awaiting(id)
  /\ UNCHANGED <<tunnelImpl, constructed, serverById, lastForgottenServer, storage,
                 eventQueue, issued>>

\* A disconnect() that keeps the fetched proxy when stop() fails.
StopReturnsKeepsProxyOnError(id, outcome) ==
  /\ constructed
  /\ IsSome(servers[id])
  /\ servers[id][1].stopping # "idle"
  /\ outcome \in StopOutcomes(tunnelImpl, servers[id][1])
  /\ LET s == servers[id][1]
         clears == IsSome(s.config.source) /\ outcome # "rejected"
     IN /\ servers' = [servers EXCEPT ![id][1] =
                         [s EXCEPT !.stopping = "idle",
                                   !.running = IF tunnelImpl = "electron"
                                                  /\ s.stopping = "pending"
                                                  /\ outcome = "resolved"
                                               THEN FALSE ELSE @,
                                   !.config.proxy = IF clears THEN None ELSE @,
                                   !.raced = @ \/ (/\ clears
                                                   /\ s.connecting \in StartPositions
                                                   /\ IsSome(s.config.proxy))]]
        /\ call' = WithHandle(Call("disconnect", id, None,
                                   IF outcome = "rejected" THEN "RegularNativeError"
                                   ELSE "none",
                                   0, Undef, FALSE, None), outcome)
  /\ UNCHANGED <<tunnelImpl, constructed, serverById, lastForgottenServer, storage,
                 eventQueue, issued>>

\* stop() ends: disconnect() raises RegularNativeError when stop() rejected,
\* and in its finally block removes the proxy when the config has a source.
StopReturns(id, outcome) ==
  /\ constructed
  /\ IsSome(servers[id])
  /\ servers[id][1].stopping # "idle"
  /\ outcome \in StopOutcomes(tunnelImpl, servers[id][1])
  /\ LET s == servers[id][1]
         clears == IsSome(s.config.source)
     IN /\ servers' = [servers EXCEPT ![id][1] =
                         [s EXCEPT !.stopping = "idle",
                                   !.running = IF tunnelImpl = "electron"
                                                  /\ s.stopping = "pending"
                                                  /\ outcome = "resolved"
                                               THEN FALSE ELSE @,
                                   !.config.proxy = IF clears THEN None ELSE @,
                                   !.raced = @ \/ (/\ clears
                                                   /\ s.connecting \in StartPositions
                                                   /\ IsSome(s.config.proxy))]]
        /\ call' = WithHandle(Call("disconnect", id, None,
                                   IF outcome = "rejected" THEN "RegularNativeError"
                                   ELSE "none",
                                   0, Undef, FALSE, None), outcome)
  /\ UNCHANGED <<tunnelImpl, constructed, serverById, lastForgottenServer, storage,
                 eventQueue, issued>>

\* A switch with the cases of DISCONNECTED and RECONNECTING exchanged.
StatusEventByPosition(status) ==
  CASE status = CONNECTED -> "ServerConnected"
    [] status = RECONNECTING -> "ServerDisconnected"
    [] status = DISCONNECTED -> "ServerReconnecting"
    [] OTHER -> Undef

\* The switch of the status listener: the event for a status, Undef for the
\* default case.
StatusEvent(status) ==
  CASE status = CONNECTED -> "ServerConnected"
    [] status = DISCONNECTED -> "ServerDisconnected"
    [] status = RECONNECTING -> "ServerReconnecting"
    [] OTHER -> Undef

\* The handle pushes a status: ElectronOutlineTunnel.handleStatusChange sets
\* its flag, then the listener the adapter registered runs.
StatusChange(id, status) ==
  /\ constructed
  /\ IsSome(servers[id])
  /\ status \in Statuses(tunnelImpl)
  /\ servers' = [servers EXCEPT ![id][1].running =
                   IF tunnelImpl = "electron" THEN status = CONNECTED ELSE @]
  /\ IF StatusEvent(status) = Undef
     THEN UNCHANGED eventQueue
     ELSE /\ Len(eventQueue) < MaxQueue
          /\ eventQueue' = Append(eventQueue, Event(StatusEvent(status), id))
  /\ call' = WithStatus(Returned("status", id, None, FALSE), status)
  /\ UNCHANGED <<tunnelImpl, constructed, serverById, lastForgottenServer, storage,
                 issued>>

\* The stored records the process starts over: one server each, loaded
\* under id 1, while a leftover legacy record holds the other id.
AdapterConfigs ==
  { Config(Undef, None, Some(Source("u1"))),
    Config("broken", None, Some(Source("u2"))),
    Config(Undef, Some(P1), None) }

AdapterStorages ==
  { [v0 |-> Json(<<Entry(2, Some(P2))>>), v1 |-> Json(<<Entry(1, Some(cfg))>>)] :
      cfg \in AdapterConfigs }

InitAdapter ==
  /\ tunnelImpl \in AdapterImpls
  /\ constructed = FALSE
  /\ serverById = <<>>
  /\ servers = NoServers
  /\ lastForgottenServer = None
  /\ storage \in AdapterStorages
  /\ eventQueue = <<>>
  /\ issued = EntryIds(storage.v0) \cup EntryIds(storage.v1)
  /\ call = Returned("start", 0, None, FALSE)

NextAdapter ==
  \/ Construct(FALSE)
  \/ \E id \in Ids, cfg \in UpdateConfigs : Update(id, cfg)
  \/ \E id \in Ids, newName \in Names : Rename(id, newName)
  \/ \E id \in Ids : ConnectBegin(id)
  \/ \E id \in Ids, outcome \in {"candidates", "stored", "stored-none", "code", "error"} :
       FetchReturns(id, outcome)
  \/ \E id \in Ids,
        outcome \in {"resolved", "code", "error", "IllegalServerConfiguration",
                     "SERVER_UNREACHABLE", "SHADOWSOCKS_START_FAILURE"} :
       StartReturns(id, outcome)
  \/ \E id \in Ids : DisconnectBegin(id)
  \/ \E id \in Ids, outcome \in {"resolved", "swallowed", "rejected"} :
       StopReturns(id, outcome)
  \/ \E id \in Ids, status \in CONNECTED..UnknownStatus : StatusChange(id, status)
  \/ Deliver

SpecAdapter == InitAdapter /\ [][NextAdapter]_vars

\* The connect() that ends in this step went through fetchProxyConfig: it
\* fails while fetching, or start() ends after a candidate was adopted.
ConnectOfSourceEnds(id) ==
  /\ call'.op = "connect"
  /\ call'.id = id
  /\ IsSome(servers[id])
  /\ \/ servers[id][1].connecting = "fetching"
     \/ servers[id][1].connecting \in StartPositions /\ IsSome(servers[id][1].adopted)

IsCandidate(proxy, adopted) ==
  /\ IsSome(proxy)
  /\ proxy[1].host = adopted[1].host
  /\ proxy[1].port = adopted[1].port
  /\ proxy[1].method = adopted[1].method
  /\ proxy[1].password = adopted[1].password

\* C15: for a server whose config has a source (when connect() is called and
\* when it ends), a connect() that fails raises an error and leaves
\* config.proxy absent, and a connect() that succeeds leaves config.proxy the
\* first candidate of the fetch.
C15_ConnectRollsBackOrAdopts ==
  [][\A id \in Ids :
       (ConnectOfSourceEnds(id) /\ IsSome(servers[id][1].config.source))
       => IF call'.handle = "resolved"
          THEN /\ call'.threw = "none"
               /\ IsCandidate(servers'[id][1].config.proxy, servers[id][1].adopted)
          ELSE /\ call'.threw # "none"
               /\ servers'[id][1].config.proxy = None]_vars

\* What holds instead: the failing connect() rolls back; the succeeding one
\* leaves the adopted candidate, unless a disconnect() of the same server
\* ended while start() was pending and removed it, and then connect()
\* returns with config.proxy absent.
C15_ConnectRollsBackOrRaced ==
  [][\A id \in Ids :
       (ConnectOfSourceEnds(id) /\ IsSome(servers[id][1].config.source))
       => IF call'.handle = "resolved"
          THEN /\ call'.threw = "none"
               /\ IF servers[id][1].raced
                  THEN servers'[id][1].config.proxy = None
                  ELSE IsCandidate(servers'[id][1].config.proxy, servers[id][1].adopted)
          ELSE /\ call'.threw # "none"
               /\ servers'[id][1].config.proxy = None]_vars

\* C16: when disconnect() ends on a server whose config has a source,
\* config.proxy is absent, however stop() ended; on a server whose config has
\* no source, config.proxy is what it was; disconnect() raises
\* RegularNativeError when stop() rejected and nothing otherwise, and touches
\* neither the source nor the name.
C16_DisconnectClearsFetchedProxy ==
  [][\A id \in Ids :
       (call'.op = "disconnect" /\ call'.id = id)
       => LET before == servers[id][1].config
              after == servers'[id][1].config
          IN /\ IsSome(before.source) => after.proxy = None
             /\ ~IsSome(before.source) => after.proxy = before.proxy
             /\ after.source = before.source
             /\ after.name = before.name
             /\ call'.threw = IF call'.handle = "rejected" THEN "RegularNativeError"
                              ELSE "none"]_vars

C16_Witness ==
  /\ call.op = "disconnect"
  /\ call.threw = "RegularNativeError"
  /\ servers[call.id][1].config.source = Some(Source("u1"))
  /\ servers[call.id][1].config.proxy = None
  /\ storage.v1.entries[1].val[1].source = Some(Source("u1"))
  /\ storage.v1.entries[1].val[1].proxy = Some(P1)

\* C17: a status notification with status CONNECTED, DISCONNECTED or
\* RECONNECTING appends exactly one event to the queue, ServerConnected,
\* ServerDisconnected or ServerReconnecting in that order of statuses, for the
\* server of the adapter that was notified; a notification with any other
\* status leaves the queue as it is.  The queue only grows at its end, so the
\* events are in the order of the notifications.
C17_StatusNotificationsMapped ==
  [][call'.op = "status"
     => eventQueue' =
          CASE call'.status = 0 -> Append(eventQueue, Event("ServerConnected", call'.id))
            [] call'.status = 1 -> Append(eventQueue, Event("ServerDisconnected", call'.id))
            [] call'.status = 2 -> Append(eventQueue, Event("ServerReconnecting", call'.id))
            [] OTHER -> eventQueue]_vars

C17_Witness ==
  /\ call.op = "status"
  /\ call.status = UnknownStatus
  /\ eventQueue = <<Event("ServerReconnecting", call.id),
                    Event("ServerDisconnected", call.id)>>

SourceBased(cfg) == IsSome(cfg.source)
ProxyOnly(cfg) == ~IsSome(cfg.source) /\ IsSome(cfg.proxy)

\* C18: configsMatch of a config that has a source (with or without a proxy)
\* and a config that has only a proxy is false in both argument orders.
C18_SourceNeverMatchesProxyOnly ==
  (call.op = "configsMatch" /\ SourceBased(call.left) /\ ProxyOnly(call.right))
  => (~call.result /\ ~call.reversed)

\* What holds instead: such a pair matches, in both orders, exactly when the
\* source-based config holds a proxy with the host, port, method and password
\* of the other.
C18_SourceMatchesProxyOnlyByProxy ==
  (call.op = "configsMatch" /\ SourceBased(call.left) /\ ProxyOnly(call.right))
  => /\ call.result = call.reversed
     /\ call.result <=> (IsSome(call.left.proxy) /\ SameProxy(call.left, call.right))

\* In Spec the legacy item never changes, and the one stored state without a
\* legacy item has no current record either: the repository started empty.
StartedEmpty == storage.v0 = NoData

\* C19: in a repository that started empty, no two distinct tracked servers
\* have configs that match each other.
C19_TrackedConfigsUnique ==
  (constructed /\ StartedEmpty)
  => \A i, j \in Tracked(serverById) :
       i # j => ~configsMatch(servers[i][1].config, servers[j][1].config)

CompletedOperations ==
  {"add", "update", "rename", "forget", "undoForget", "connect", "disconnect"}

\* C21: after every completed mutation, connect() or disconnect(), the stored
\* current record is the serialization of the tracked servers' configs.
C21_StoredRecordIsSerialization ==
  (constructed /\ call.op \in CompletedOperations)
  => storage.v1 = storeServers(serverById, servers)

\* What holds instead: the stored record is the serialization at the end of
\* every repository mutation that changed something.
C21_StoredRecordAfterMutation ==
  (constructed /\ call.op \in CompletedOperations /\ call.wrote)
  => storage.v1 = storeServers(serverById, servers)

\* The parenthesis of C21: no stored entry with a source holds the proxy
\* that fetchProxyConfig() returned.
C21_NoFetchedProxyStored ==
  \A k \in 1..Len(storage.v1.entries) :
    LET val == storage.v1.entries[k].val
    IN (IsSome(val) /\ IsSome(val[1].source) /\ IsSome(val[1].proxy))
       => ~IsCandidate(val[1].proxy, Some(PDynamic))

\* The process starts over an empty current record, while a leftover legacy
\* record holds the other id: one server is added, with a concrete proxy;
\* update, rename, connect() and disconnect() follow in any interleaving.
StaticAdds == { Config(Undef, Some(P1), None) }

InitStatic ==
  /\ tunnelImpl \in AdapterImpls
  /\ constructed = FALSE
  /\ serverById = <<>>
  /\ servers = NoServers
  /\ lastForgottenServer = None
  /\ storage = [v0 |-> Json(<<Entry(2, Some(P2))>>), v1 |-> Json(<<>>)]
  /\ eventQueue = <<>>
  /\ issued = EntryIds(storage.v0) \cup EntryIds(storage.v1)
  /\ call = Returned("start", 0, None, FALSE)

NextStatic ==
  \/ Construct(FALSE)
  \/ \E cfg \in StaticAdds : Add(cfg)
  \/ \E id \in Ids, cfg \in UpdateConfigs : Update(id, cfg)
  \/ \E id \in Ids, newName \in Names : Rename(id, newName)
  \/ \E id \in Ids : ConnectBegin(id)
  \/ \E id \in Ids, outcome \in {"candidates", "stored", "stored-none", "code", "error"} :
       FetchReturns(id, outcome)
  \/ \E id \in Ids,
        outcome \in {"resolved", "code", "error", "IllegalServerConfiguration",
                     "SERVER_UNREACHABLE", "SHADOWSOCKS_START_FAILURE"} :
       StartReturns(id, outcome)
  \/ \E id \in Ids : DisconnectBegin(id)
  \/ \E id \in Ids, outcome \in {"resolved", "swallowed", "rejected"} :
       StopReturns(id, outcome)
  \/ Deliver

SpecStatic == InitStatic /\ [][NextStatic]_vars

\* C22: every tracked server, added with the proxy of StaticAdds, has a
\* config.proxy with the host, port, method and password it was added with.
C22_StaticProxyKept ==
  constructed
  => \A i \in Tracked(serverById) :
       /\ IsSome(servers[i][1].config.proxy)
       /\ \A cfg \in StaticAdds : SameProxy(servers[i][1].config, cfg)

\* What holds instead: no step changes or removes the proxy of a server whose
\* config has no source when the step begins, unless a connect() of that
\* server is suspended in fetchProxyConfig().
C22_ProxyKeptWithoutSource ==
  [][\A i \in Ids :
       (IsSome(servers[i]) /\ IsSome(servers'[i])
        /\ ~IsSome(servers[i][1].config.source)
        /\ servers[i][1].connecting # "fetching"
        /\ IsSome(servers[i][1].config.proxy))
       => /\ IsSome(servers'[i][1].config.proxy)
          /\ SameProxy(servers'[i][1].config, servers[i][1].config)]_vars

====
